---- MODULE Spec2Model ----
(***************************************************************************)
(* play.py: a human (White) plays chess on the command line against a      *)
(* language model (Black).  play_chess owns a chess.Board and a list       *)
(* move_history; get_gpt4_move turns one model response into a move.       *)
(*                                                                         *)
(* The rules engine (the `chess` package) is an external collaborator.     *)
(* It is modelled here by its own algorithms (attack generation, legal     *)
(* move filtering, push, SAN/UCI parsing and rendering, repetition replay, *)
(* outcome) on a board cut down to files a..d, ranks 1..2 with a king and  *)
(* a queen per side, so that every outcome of a game is within reach of    *)
(* exhaustive exploration.  Squares keep the engine's numbering            *)
(* (a1 = 0, b1 = 1, ..., a2 = 8, ...).                                     *)
(***************************************************************************)
EXTENDS Integers, Sequences, FiniteSets, TLC

VARIABLES
    api_key,        \* os.environ.get("OPENAI_API_KEY"): "None", "" or a key
    pc,             \* where the process is: "import", "main", "human"
                    \* (blocked in input()), "model" (request sent, awaiting
                    \* the response), "done", "crashed"
    board,          \* the chess.Board of play_chess, NoBoard before it exists
    move_history,   \* the list move_history of play_chess (SAN texts)
    printed,        \* the last narration line written to the console
    report,         \* the result classifications printed after the loop
    requests,       \* number of client.chat.completions.create calls made
    stderr          \* the uncaught exception the interpreter reported, if any

vars == <<api_key, pc, board, move_history, printed, report, requests, stderr>>

\* Longest game explored, in half-moves pushed on the board.
MaxPlies == 8

-----------------------------------------------------------------------------
(* The rules engine: squares, pieces, attacks.                             *)

WHITE == TRUE
BLACK == FALSE

Squares == {0, 1, 2, 3, 8, 9, 10, 11}

FILE_NAMES == <<"a", "b", "c", "d", "e", "f", "g", "h">>
RANK_NAMES == <<"1", "2", "3", "4", "5", "6", "7", "8">>

square_file(sq) == sq % 8
square_rank(sq) == sq \div 8
square(f, r) == r * 8 + f

SQUARE_NAME(sq) == <<FILE_NAMES[square_file(sq) + 1], RANK_NAMES[square_rank(sq) + 1]>>

Abs(n) == IF n < 0 THEN -n ELSE n
Sgn(n) == IF n < 0 THEN -1 ELSE IF n > 0 THEN 1 ELSE 0
Max(a, b) == IF a > b THEN a ELSE b

square_distance(a, b) ==
    Max(Abs(square_file(a) - square_file(b)), Abs(square_rank(a) - square_rank(b)))

\* Pieces are written as in the engine's board text: upper case is White.
Empty == "."
WhitePieces == {"K", "Q"}
BlackPieces == {"k", "q"}

pieces_of(color) == IF color = WHITE THEN WhitePieces ELSE BlackPieces
king_of(color) == IF color = WHITE THEN "K" ELSE "k"
queen_of(color) == IF color = WHITE THEN "Q" ELSE "q"
piece_symbol(p) == IF p \in {"K", "k"} THEN "K" ELSE "Q"

\* The engine's precomputed tables.  BETWEEN[a][b]: the squares strictly
\* between two squares of one rank, file or diagonal (empty otherwise).
BETWEEN ==
    [a \in Squares |-> [b \in Squares |->
        LET df == square_file(b) - square_file(a)
            dr == square_rank(b) - square_rank(a)
            n  == Max(Abs(df), Abs(dr))
        IN  IF df = 0 \/ dr = 0 \/ Abs(df) = Abs(dr)
            THEN {square(square_file(a) + k * Sgn(df), square_rank(a) + k * Sgn(dr)) : k \in 1..(n - 1)}
            ELSE {}]]

\* KING_ATTACKS[s]: the squares a king step away.
KING_ATTACKS == [s \in Squares |-> {t \in Squares : square_distance(s, t) = 1}]

\* QUEEN_LINES[s]: the other squares of the rank, file and diagonals of s.
QUEEN_LINES ==
    [s \in Squares |->
        {t \in Squares \ {s} :
            \/ square_file(s) = square_file(t)
            \/ square_rank(s) = square_rank(t)
            \/ Abs(square_file(s) - square_file(t)) = Abs(square_rank(s) - square_rank(t))}]

\* attacks_mask(square): the squares the piece standing on `from` attacks
\* (a king's steps, a queen's rays up to the first occupied square).
attacks_mask(pieces, from) ==
    IF pieces[from] \in {"K", "k"}
    THEN KING_ATTACKS[from]
    ELSE {t \in QUEEN_LINES[from] : \A s \in BETWEEN[from][t] : pieces[s] = Empty}

is_attacked_by(pieces, color, sq) ==
    \E s \in Squares : pieces[s] \in pieces_of(color) /\ sq \in attacks_mask(pieces, s)

\* Board.king(color), as a set: the king's square, or nothing for None.
king(pieces, color) == {s \in Squares : pieces[s] = king_of(color)}

-----------------------------------------------------------------------------
(* Moves.                                                                  *)

Move(from, to) == [from_square |-> from, to_square |-> to]
\* Move.null() is Move(0, 0); bool(move) is False for it.
NullMove == Move(0, 0)

\* The piece placement after a (non-null) move.
moved(pieces, m) ==
    [s \in Squares |->
        IF s = m.to_square THEN pieces[m.from_square]
        ELSE IF s = m.from_square THEN Empty
        ELSE pieces[s]]

\* generate_pseudo_legal_moves: every own piece to every attacked square
\* not occupied by an own piece.
pseudo_legal_moves(pieces, turn) ==
    UNION {{Move(f, to) : to \in {u \in attacks_mask(pieces, f) : pieces[u] \notin pieces_of(turn)}} :
            f \in {s \in Squares : pieces[s] \in pieces_of(turn)}}

\* _is_safe: the move does not leave the mover's king attacked.  A side
\* without a king has every pseudo-legal move.
is_safe(pieces, turn, m) ==
    LET after == moved(pieces, m)
    IN  \A k \in king(after, turn) : ~is_attacked_by(after, ~turn, k)

\* generate_legal_moves, as a set.
generate_legal_moves(pieces, turn) ==
    {m : m \in {x \in pseudo_legal_moves(pieces, turn) : is_safe(pieces, turn, x)}}

\* Whether the side to move is in check.
in_check(pieces, turn) == \E k \in king(pieces, turn) : is_attacked_by(pieces, ~turn, k)

\* scan_reversed: squares from the highest to the lowest.
SCAN_REVERSED == <<11, 10, 9, 8, 3, 2, 1, 0>>

\* Every pair of squares as a move, from-square descending and then
\* to-square descending: the order in which generate_pseudo_legal_moves
\* yields the moves it finds.
MOVES_IN_ORDER ==
    [i \in 1..(Len(SCAN_REVERSED) * Len(SCAN_REVERSED)) |->
        Move(SCAN_REVERSED[((i - 1) \div Len(SCAN_REVERSED)) + 1],
             SCAN_REVERSED[((i - 1) % Len(SCAN_REVERSED)) + 1])]

\* The moves of `legal` in the order of the engine.  Out of check that is
\* the order above.  In check (_generate_evasions) the king's moves come
\* first, then the other pieces' moves; `evading` is then the king's square.
ordered(legal, evading) ==
    SelectSeq(MOVES_IN_ORDER, LAMBDA m : m \in legal /\ m.from_square \in evading)
    \o SelectSeq(MOVES_IN_ORDER, LAMBDA m : m \in legal /\ m.from_square \notin evading)

\* list(generate_legal_moves())
list_legal_moves(pieces, turn) ==
    ordered(generate_legal_moves(pieces, turn),
            IF in_check(pieces, turn) THEN king(pieces, turn) ELSE {})

-----------------------------------------------------------------------------
(* The Board object.  Its field legal_moves holds list(board.legal_moves), *)
(* which the engine derives from the pieces and the turn on every use; it  *)
(* is kept with the position it belongs to so as to be derived once.       *)

position(pieces, turn, halfmove_clock, move_stack, stack) ==
    [pieces |-> pieces, turn |-> turn, halfmove_clock |-> halfmove_clock,
     move_stack |-> move_stack, stack |-> stack,
     legal_moves |-> list_legal_moves(pieces, turn)]

\* list(board.legal_moves)
legal_moves(b) == b.legal_moves

\* The Legal Move Set: board.legal_moves as a set.
legal_move_set(b) == {b.legal_moves[i] : i \in 1..Len(b.legal_moves)}

is_check(b) == in_check(b.pieces, b.turn)

\* The name `board` before play_chess binds it.
NoBoard ==
    [pieces |-> <<>>, turn |-> WHITE, halfmove_clock |-> 0,
     move_stack |-> <<>>, stack |-> <<>>, legal_moves |-> <<>>]

\* chess.Board(): the starting position, White to move, empty stacks.
StartPieces ==
    [s \in Squares |->
        CASE s = 0 -> "K"
          [] s = 1 -> "Q"
          [] s = 2 -> "q"
          [] s = 3 -> "k"
          [] OTHER -> Empty]

Board == position(StartPieces, WHITE, 0, <<>>, <<>>)

\* _board_state(): what push remembers of the position it leaves.
board_state(b) == [pieces |-> b.pieces, turn |-> b.turn, halfmove_clock |-> b.halfmove_clock]

\* is_zeroing: a capture (there are no pawns).
is_zeroing(b, m) ==
    \E s \in {m.from_square, m.to_square} \ ({m.from_square} \cap {m.to_square}) :
        b.pieces[s] \in pieces_of(~b.turn)

\* board.push(move): remembers the state, bumps the clock, and on a null
\* move only swaps the turn.
push(b, m) ==
    position(IF m = NullMove THEN b.pieces ELSE moved(b.pieces, m),
             ~b.turn,
             IF m # NullMove /\ is_zeroing(b, m) THEN 0 ELSE b.halfmove_clock + 1,
             Append(b.move_stack, m),
             Append(b.stack, board_state(b)))

-----------------------------------------------------------------------------
(* Game end.                                                               *)

is_checkmate(b) == is_check(b) /\ legal_move_set(b) = {}

\* has_insufficient_material(color): no queen (nor any other mating piece).
has_insufficient_material(b, color) == \A s \in Squares : b.pieces[s] # queen_of(color)
is_insufficient_material(b) ==
    has_insufficient_material(b, WHITE) /\ has_insufficient_material(b, BLACK)

is_stalemate(b) == ~is_check(b) /\ legal_move_set(b) = {}

is_seventyfive_moves(b) == b.halfmove_clock >= 150 /\ legal_move_set(b) # {}

transposition_key(s) == <<s.pieces, s.turn>>

\* is_repetition(count): replay the move stack backwards from the current
\* position, stopping at the first irreversible move, counting the earlier
\* occurrences of the current position.  `i` moves are still on the stack.
RECURSIVE replay(_, _, _)
replay(b, i, count) ==
    IF count <= 1 THEN TRUE
    ELSE IF i < count - 1 THEN FALSE
    ELSE LET move == b.move_stack[i]
             prev == b.stack[i]
         IN  IF move # NullMove /\ is_zeroing(prev, move) THEN FALSE
             ELSE replay(b, i - 1,
                         IF transposition_key(prev) = transposition_key(b)
                         THEN count - 1 ELSE count)

is_repetition(b, count) == replay(b, Len(b.move_stack), count)

is_fivefold_repetition(b) == is_repetition(b, 5)

\* board.outcome(): the termination, in the engine's order; the
\* termination "None" stands for the result None.
None == "None"
outcome(b) ==
    IF is_checkmate(b) THEN [termination |-> "CHECKMATE", winner |-> IF b.turn = WHITE THEN "BLACK" ELSE "WHITE"]
    ELSE IF is_insufficient_material(b) THEN [termination |-> "INSUFFICIENT_MATERIAL", winner |-> None]
    ELSE IF legal_move_set(b) = {} THEN [termination |-> "STALEMATE", winner |-> None]
    ELSE IF is_seventyfive_moves(b) THEN [termination |-> "SEVENTYFIVE_MOVES", winner |-> None]
    ELSE IF is_fivefold_repetition(b) THEN [termination |-> "FIVEFOLD_REPETITION", winner |-> None]
    ELSE [termination |-> None, winner |-> None]

\* board.is_game_over(): claim_draw is left at False.
is_game_over(b) == outcome(b).termination # None

\* board.result()
result(b) ==
    LET o == outcome(b)
    IN  IF o.termination = None THEN "*"
        ELSE IF o.winner = "WHITE" THEN "1-0"
        ELSE IF o.winner = "BLACK" THEN "0-1"
        ELSE "1/2-1/2"

-----------------------------------------------------------------------------
(* Notation.  A text is a sequence of one-character strings.               *)

is_file_name(c) == \E i \in 1..Len(FILE_NAMES) : FILE_NAMES[i] = c
is_rank_name(c) == \E i \in 1..Len(RANK_NAMES) : RANK_NAMES[i] = c
\* names.index(c)
index(names, c) == (CHOOSE i \in 1..Len(names) : names[i] = c) - 1

PIECE_LETTERS == {"N", "B", "K", "R", "Q"}
CASTLING_SANS ==
    {<<"O", "-", "O">>, <<"O", "-", "O", "-", "O">>, <<"0", "-", "0">>, <<"0", "-", "0", "-", "0">>}
NULL_SANS ==
    {<<"-", "-">>, <<"Z", "0">>, <<"0", "0", "0", "0">>, <<"@", "@", "@", "@">>}

\* What a call gives back: a move, or the exception class it raised.
Returned(m) == [raised |-> "", move |-> m]
Raised(e) == [raised |-> e, move |-> NullMove]
ValueErrors == {"InvalidMoveError", "IllegalMoveError", "AmbiguousMoveError"}

\* SAN_REGEX:
\*   ^([NBKRQ])?([a-h])?([1-8])?[\-x]?([a-h][1-8])(=?[nbrqkNBRQK])?[\+#]?\Z
\* for texts without a promotion part (there are no pawns).  Before the
\* target square come at most one character of each of four disjoint
\* classes, in this order: piece letter, file, rank, separator.
group_of(c) ==
    IF c \in PIECE_LETTERS THEN 1
    ELSE IF is_file_name(c) THEN 2
    ELSE IF is_rank_name(c) THEN 3
    ELSE IF c \in {"-", "x"} THEN 4
    ELSE 0

\* The text without its optional check mark.
without_mark(san) ==
    IF Len(san) > 0 /\ san[Len(san)] \in {"+", "#"} THEN SubSeq(san, 1, Len(san) - 1) ELSE san

\* Whether the text (check mark removed) matches the expression.
matches(body) ==
    /\ Len(body) >= 2
    /\ is_file_name(body[Len(body) - 1])
    /\ is_rank_name(body[Len(body)])
    /\ \A i \in 1..(Len(body) - 2) :
        /\ group_of(body[i]) > 0
        /\ i > 1 => group_of(body[i - 1]) < group_of(body[i])

\* match.group(g) for g in 1..3, as a set: empty when the group is absent.
group(body, g) == {body[i] : i \in {j \in 1..(Len(body) - 2) : group_of(body[j]) = g}}

\* SAN_REGEX.match(san): whether it matched, and the groups.
san_match(san) ==
    IF matches(without_mark(san))
    THEN [matched |-> TRUE,
          piece |-> group(without_mark(san), 1),
          from_file |-> {index(FILE_NAMES, c) : c \in group(without_mark(san), 2)},
          from_rank |-> {index(RANK_NAMES, c) : c \in group(without_mark(san), 3)},
          to_square |-> square(index(FILE_NAMES, without_mark(san)[Len(without_mark(san)) - 1]),
                               index(RANK_NAMES, without_mark(san)[Len(without_mark(san))]))]
    ELSE [matched |-> FALSE, piece |-> {}, from_file |-> {}, from_rank |-> {}, to_square |-> -1]

\* The legal moves a matched SAN text with a piece letter stands for.
san_candidates(b, match) ==
    {m \in legal_move_set(b) :
        /\ m.to_square = match.to_square
        /\ \A f \in match.from_file : square_file(m.from_square) = f
        /\ \A r \in match.from_rank : square_rank(m.from_square) = r
        /\ piece_symbol(b.pieces[m.from_square]) \in match.piece}

\* The move a matched text stands for.
san_lookup(b, match) ==
    IF match.piece # {}
    THEN IF san_candidates(b, match) = {} THEN Raised("IllegalMoveError")
         ELSE IF Cardinality(san_candidates(b, match)) > 1 THEN Raised("AmbiguousMoveError")
         ELSE Returned(CHOOSE m \in san_candidates(b, match) : TRUE)
    ELSE IF match.from_file # {} /\ match.from_rank # {}
    THEN \* find_move: a fully specified move
         IF \E f \in match.from_file, r \in match.from_rank :
                Move(square(f, r), match.to_square) \in legal_move_set(b)
         THEN Returned(CHOOSE m \in legal_move_set(b) :
                        \E f \in match.from_file, r \in match.from_rank :
                            m = Move(square(f, r), match.to_square))
         ELSE Raised("IllegalMoveError")
    ELSE \* a pawn move, and the board has no pawns
         Raised("IllegalMoveError")

\* board.parse_san(san) for a text: castling names first, then the regular
\* expression; a text that does not match is a null move if it is one of the
\* null names; a matching text is looked up among the legal moves.
parse_san(b, san) ==
    IF san \in CASTLING_SANS THEN Raised("IllegalMoveError")
    ELSE IF ~matches(without_mark(san))
    THEN IF san \in NULL_SANS THEN Returned(NullMove) ELSE Raised("InvalidMoveError")
    ELSE san_lookup(b, san_match(san))

\* chess.Move.from_uci(uci) for texts without a promotion letter.
from_uci(uci) ==
    IF uci = <<"0", "0", "0", "0">> THEN Returned(NullMove)
    ELSE IF Len(uci) = 4
    THEN IF /\ is_file_name(uci[1]) /\ is_rank_name(uci[2])
            /\ is_file_name(uci[3]) /\ is_rank_name(uci[4])
         THEN LET from == square(index(FILE_NAMES, uci[1]), index(RANK_NAMES, uci[2]))
                  to   == square(index(FILE_NAMES, uci[3]), index(RANK_NAMES, uci[4]))
              IN  IF from = to THEN Raised("InvalidMoveError") ELSE Returned(Move(from, to))
         ELSE Raised("InvalidMoveError")
    ELSE Raised("InvalidMoveError")

\* _algebraic_and_push: the SAN of a move given the board `after` the move
\* was pushed.  "--" for a null move; otherwise the piece letter, "x" on a
\* capture, the target square, and "#" or "+" as the board after the move
\* is checkmate or check.  With one piece of a kind per side nothing is
\* disambiguated.
algebraic(b, m, after) ==
    IF m = NullMove THEN <<"-", "-">>
    ELSE <<piece_symbol(b.pieces[m.from_square])>>
         \o (IF b.pieces[m.to_square] # Empty THEN <<"x">> ELSE <<>>)
         \o SQUARE_NAME(m.to_square)
         \o (IF is_checkmate(after) THEN <<"#">>
             ELSE IF is_check(after) THEN <<"+">>
             ELSE <<>>)

\* board.san(move)
san(b, m) == algebraic(b, m, push(b, m))

\* legal_moves_san of get_gpt4_move: the enumeration offered to the model.
legal_moves_san(b) == {san(b, m) : m \in legal_move_set(b)}

-----------------------------------------------------------------------------
(* Inputs.                                                                 *)

\* Coordinate notation of a move, as a human types it.
uci(m) == SQUARE_NAME(m.from_square) \o SQUARE_NAME(m.to_square)

\* Texts that are typed whatever the position: SAN to a square off the
\* board, onto the own king, with and without a capture mark; a pawn move;
\* coordinate pairs (onto an own piece, through a piece, twice the same
\* square, off the board); the null names; a castling name; text that is
\* no move at all.
OtherTexts ==
    {<<"Q", "h", "8">>, <<"Q", "a", "1">>, <<"Q", "x", "d", "1">>, <<"K", "b", "2">>, <<"b", "2">>,
     <<"a", "1", "b", "1">>, <<"b", "1", "d", "1">>, <<"a", "1", "a", "1">>, <<"h", "7", "h", "8">>,
     <<"O", "-", "O">>, <<"h", "e", "l", "l", "o">>, <<>>}
    \cup NULL_SANS

\* What the human may type at board b: the SAN and the coordinate
\* rendering of every legal move, and the other texts.
InputTexts(b) ==
    legal_moves_san(b) \cup {uci(m) : m \in legal_move_set(b)} \cup OtherTexts

\* What one model call may come to: the client raising, a message without
\* tool calls, arguments that are not JSON, arguments without "move", or a
\* tool call whose "move" is a text inside or outside the enumeration.
ModelResponses(b) ==
    {[kind |-> k, move |-> <<>>] :
        k \in {"APIError", "no_tool_calls", "JSONDecodeError", "no_move"}}
    \cup {[kind |-> "tool_call", move |-> t] :
            t \in legal_moves_san(b)
                  \cup {<<"-", "-">>, <<"Z", "0">>, <<"Q", "h", "8">>, <<"K", "a", "1">>,
                        <<"h", "e", "l", "l", "o">>, <<>>}}

-----------------------------------------------------------------------------
(* play.py                                                                 *)

KeyError ==
    "ValueError: OPENAI_API_KEY environment variable is not set. Please set it before running the program."

Init ==
    /\ api_key \in {"None", "", "sk-key"}
    /\ pc = "import"
    /\ board = NoBoard
    /\ move_history = <<>>
    /\ printed = <<>>
    /\ report = {}
    /\ requests = 0
    /\ stderr = ""

\* The test `if api_key is None`, which an empty key passes.
Import_none_only ==
    /\ pc = "import"
    /\ IF api_key = "None"
       THEN pc' = "crashed" /\ stderr' = KeyError
       ELSE pc' = "main" /\ stderr' = stderr
    /\ UNCHANGED <<api_key, board, move_history, printed, report, requests>>

\* Module level: `if not api_key: raise ValueError(...)`, outside any try.
Import ==
    /\ pc = "import"
    /\ IF api_key \in {"None", ""}
       THEN pc' = "crashed" /\ stderr' = KeyError
       ELSE pc' = "main" /\ stderr' = stderr
    /\ UNCHANGED <<api_key, board, move_history, printed, report, requests>>

\* The fallback taking the last move of the enumeration, [-1].
last_legal_move(b) ==
    IF legal_moves(b) = <<>> THEN Raised("IndexError")
    ELSE Returned(legal_moves(b)[Len(legal_moves(b))])

\* get_gpt4_move's fallback, list(board.legal_moves)[0].
first_legal_move(b) ==
    IF legal_moves(b) = <<>> THEN Raised("IndexError") ELSE Returned(legal_moves(b)[1])

\* What get_gpt4_move prints.
SAYS == "GPT-4o says: I choose"
NO_CALL == "GPT-4o didn't make a function call. Choosing randomly."
ERROR == "Error getting move from GPT-4o"
INSTEAD == "Choosing a random legal move instead."

\* A value get_gpt4_move returns or an exception it lets through, with the
\* lines it has printed.
got(answer, lines) ==
    [raised |-> answer.raised, move |-> answer.move, printed |-> lines]

\* get_gpt4_move(board, move_history) given what the API call comes to.
\* Every exception inside the try, a TypeError from parse_san(None)
\* included, ends in the except branch.
get_gpt4_move(b, response) ==
    IF response.kind = "no_tool_calls"
    THEN got(first_legal_move(b), <<NO_CALL>>)
    ELSE IF response.kind \in {"APIError", "JSONDecodeError"}
    THEN got(first_legal_move(b), <<ERROR, INSTEAD>>)
    ELSE IF response.kind = "no_move" \/ parse_san(b, response.move).raised # ""
    THEN got(first_legal_move(b), <<SAYS, ERROR, INSTEAD>>)
    ELSE got(parse_san(b, response.move), <<SAYS>>)

\* What play_chess prints, the boards left out.
INITIAL == "Initial board:"
AFTER_YOURS == "Board after your move:"
ILLEGAL == "Illegal move! Try again."
INVALID == "Invalid move format! Please use standard notation (e.g. 'e4') or UCI notation (e.g. 'e2e4')."
THINKING == "GPT-4o is thinking..."
PLAYS == "GPT-4o plays:"
GAME_OVER == "Game over!"

WHITE_WON == "You (White) won!"
BLACK_WON == "GPT-4o (Black) won!"
DRAW == "It's a draw!"

\* A classification with the two winners exchanged.
classification_swapped(b) ==
    IF result(b) = "1-0" THEN BLACK_WON
    ELSE IF result(b) = "0-1" THEN WHITE_WON
    ELSE DRAW

\* A classification by the side to move alone, the one that cannot move
\* losing.
classification_by_turn(b) ==
    IF b.turn = BLACK THEN WHITE_WON ELSE BLACK_WON

\* The lines after the loop: the classification printed for board.result().
classification(b) ==
    IF result(b) = "1-0" THEN WHITE_WON
    ELSE IF result(b) = "0-1" THEN BLACK_WON
    ELSE DRAW

\* The loop with `while not board.is_checkmate()` for its test.
loop_until_checkmate(b, h, lines) ==
    /\ board' = b
    /\ move_history' = h
    /\ IF is_checkmate(b)
       THEN /\ pc' = "done"
            /\ printed' = lines \o <<GAME_OVER, classification(b)>>
            /\ report' = report \cup {classification(b)}
            /\ requests' = requests
       ELSE IF b.turn = WHITE
       THEN /\ pc' = "human"
            /\ printed' = lines
            /\ UNCHANGED <<report, requests>>
       ELSE /\ pc' = "model"
            /\ printed' = lines \o <<THINKING>>
            /\ requests' = requests + 1
            /\ report' = report

\* The loop with the human asked when Black is to move.
loop_black_first(b, h, lines) ==
    /\ board' = b
    /\ move_history' = h
    /\ IF is_game_over(b)
       THEN /\ pc' = "done"
            /\ printed' = lines \o <<GAME_OVER, classification(b)>>
            /\ report' = report \cup {classification(b)}
            /\ requests' = requests
       ELSE IF b.turn = BLACK
       THEN /\ pc' = "human"
            /\ printed' = lines
            /\ UNCHANGED <<report, requests>>
       ELSE /\ pc' = "model"
            /\ printed' = lines \o <<THINKING>>
            /\ requests' = requests + 1
            /\ report' = report

\* Control back at `while not board.is_game_over()` with board b and
\* history h, `lines` printed since the last input or request: the loop
\* ends and the result is reported, or the human is prompted, or the model
\* is asked.  (`break` after the human's move leaves the loop in the states
\* in which the loop test would.)
loop(b, h, lines) ==
    /\ board' = b
    /\ move_history' = h
    /\ IF is_game_over(b)
       THEN /\ pc' = "done"
            /\ printed' = lines \o <<GAME_OVER, classification(b)>>
            /\ report' = report \cup {classification(b)}
            /\ requests' = requests
       ELSE IF b.turn = WHITE
       THEN /\ pc' = "human"
            /\ printed' = lines
            /\ UNCHANGED <<report, requests>>
       ELSE /\ pc' = "model"
            /\ printed' = lines \o <<THINKING>>
            /\ requests' = requests + 1
            /\ report' = report

\* __main__ calls play_chess: the board and the history are created and
\* the loop is entered.
play_chess ==
    /\ pc = "main"
    /\ loop(Board, <<>>, <<INITIAL>>)
    /\ UNCHANGED <<api_key, stderr>>

\* The move made without the append to move_history.
make_move_unrecorded(b, h, move, lines) ==
    loop(push(b, move), h, lines)

\* The move is made: san, push, append.  board.san(move) pushes the move
\* to look at the board after it and pops it again; `after` is that board.
make_move(b, h, move, lines) ==
    \E after \in {push(b, move)} : loop(after, Append(h, algebraic(b, move, after)), lines)

\* The human's turn with the line appended to move_history as typed,
\* before it is looked at.
human_turn_logs_input(move_input) ==
    \E parsed \in {parse_san(board, move_input)}, coord \in {from_uci(move_input)} :
        IF parsed.raised = ""
        THEN loop(push(board, parsed.move), Append(move_history, move_input), <<AFTER_YOURS>>)
        ELSE IF coord.raised # ""
        THEN loop(board, Append(move_history, move_input), <<INVALID>>)
        ELSE IF coord.move \notin legal_move_set(board)
        THEN loop(board, Append(move_history, move_input), <<ILLEGAL>>)
        ELSE loop(push(board, coord.move), Append(move_history, move_input), <<AFTER_YOURS>>)

\* The human's turn for one line of input: SAN first, then UCI with the
\* legality test; `continue` on either rejection.
human_turn(move_input) ==
    \E parsed \in {parse_san(board, move_input)}, coord \in {from_uci(move_input)} :
        IF parsed.raised = ""
        THEN make_move(board, move_history, parsed.move, <<AFTER_YOURS>>)
        ELSE IF coord.raised # ""
        THEN loop(board, move_history, <<INVALID>>)
        ELSE IF coord.move \notin legal_move_set(board)
        THEN loop(board, move_history, <<ILLEGAL>>)
        ELSE make_move(board, move_history, coord.move, <<AFTER_YOURS>>)

\* input() returns a line.
HumanInput ==
    /\ pc = "human"
    /\ Len(board.move_stack) < MaxPlies
    /\ \E move_input \in InputTexts(board) : human_turn(move_input)
    /\ UNCHANGED <<api_key, stderr>>

\* The model's turn once the API call has come back: the move of
\* get_gpt4_move is made without a further test.
model_turn(response) ==
    \E answer \in {get_gpt4_move(board, response)} :
        IF answer.raised # ""
        THEN /\ pc' = "crashed"
             /\ stderr' = answer.raised
             /\ printed' = answer.printed
             /\ UNCHANGED <<board, move_history, report, requests>>
        ELSE /\ make_move(board, move_history, answer.move, answer.printed \o <<PLAYS>>)
             /\ stderr' = stderr

\* client.chat.completions.create returns or raises.
ModelResponse ==
    /\ pc = "model"
    /\ Len(board.move_stack) < MaxPlies
    /\ \E response \in ModelResponses(board) : model_turn(response)
    /\ UNCHANGED api_key

Next ==
    \/ Import
    \/ play_chess
    \/ HumanInput
    \/ ModelResponse

Spec == Init /\ [][Next]_vars

TypeOK ==
    /\ pc \in {"import", "main", "human", "model", "done", "crashed"}
    /\ requests \in Nat

-----------------------------------------------------------------------------
(* The properties.                                                         *)

\* The key is there: the program got past the import.
started == pc \in {"human", "model", "done"}

\* `line` is among the lines last printed.
said(line) == \E i \in 1..Len(printed) : printed[i] = line

\* The move pushed last and the position it was pushed on.
last_move == board.move_stack[Len(board.move_stack)]
last_state == board.stack[Len(board.stack)]

\* Every move pushed so far was a move of a piece.
no_null_moves == \A i \in 1..Len(board.move_stack) : board.move_stack[i] # NullMove

\* C1: every move pushed on the human's turn is a member of the Legal Move
\* Set of the position it is pushed on, whatever text was entered.
C1_HumanPushesOnlyLegalMoves ==
    [][(pc = "human" /\ board'.move_stack # board.move_stack)
        => board'.move_stack[Len(board'.move_stack)] \in legal_move_set(board)]_vars

\* C2: at every model turn, whatever the API call comes to, get_gpt4_move
\* returns a move of the Legal Move Set of the board.
C2_AdvisorReturnsLegalMove ==
    pc = "model" =>
        \A response \in ModelResponses(board) :
            /\ get_gpt4_move(board, response).raised = ""
            /\ get_gpt4_move(board, response).move \in legal_move_set(board)

\* The outcomes of the call that are failures: the client raising, no tool
\* call, arguments that do not decode or hold no move, and a selection
\* parse_san raises on.
failures(b) ==
    {response \in ModelResponses(b) :
        response.kind # "tool_call" \/ parse_san(b, response.move).raised # ""}

\* The model calls begun so far: one for each move Black has made, and the
\* one in progress.
model_turns ==
    Cardinality({i \in 1..Len(board.stack) : board.stack[i].turn = BLACK})
    + (IF pc = "model" THEN 1 ELSE 0)

\* C3: on every failure of the model turn get_gpt4_move returns the first
\* move of the enumeration and raises nothing; the move the loop then makes
\* is that move; the program does not crash; and there has been exactly one
\* model call per model turn.
C3_FailureFallsBackToFirstLegalMove ==
    /\ pc = "model" =>
          \A response \in failures(board) :
              /\ get_gpt4_move(board, response).raised = ""
              /\ get_gpt4_move(board, response).move = legal_moves(board)[1]
    /\ (said(ERROR) \/ said(NO_CALL)) =>
          /\ pc \in {"human", "model", "done"}
          /\ said(PLAYS)
          /\ last_state.turn = BLACK
          /\ last_move = list_legal_moves(last_state.pieces, last_state.turn)[1]
    /\ api_key = "sk-key" => pc # "crashed"
    /\ requests = model_turns

\* C3's case: the call failed with more than one legal move to choose from,
\* the first was made and the human is asked next.
C3_Witness ==
    /\ pc = "human"
    /\ printed = <<ERROR, INSTEAD, PLAYS>>
    /\ Len(list_legal_moves(last_state.pieces, last_state.turn)) > 1
    /\ last_move = list_legal_moves(last_state.pieces, last_state.turn)[1]

\* C4: a move is asked for only while the board is not terminal, the result
\* is reported only on a terminal board, and once the game has started the
\* program is either asking for a move or has reported the result.
C4_LoopRunsUntilTerminal ==
    /\ pc \in {"human", "model"} => ~is_game_over(board)
    /\ pc = "done" => is_game_over(board) /\ report # {}
    /\ (report # {} \/ said(GAME_OVER)) => pc = "done" /\ is_game_over(board)
    /\ board # NoBoard => started

\* C4's case: moves were made, the board became terminal and the result
\* was reported.
C4_Witness ==
    /\ pc = "done"
    /\ Len(board.move_stack) > 1
    /\ is_game_over(board)
    /\ report # {}

\* C5: after the loop Black checkmated is reported as White's win, White
\* checkmated as Black's win, every other end as a draw, and exactly one
\* classification is reported.
C5_ClassificationMatchesMatedSide ==
    pc = "done" =>
        /\ Cardinality(report) = 1
        /\ said(GAME_OVER)
        /\ \A c \in report : said(c)
        /\ is_checkmate(board) /\ board.turn = BLACK => report = {WHITE_WON}
        /\ is_checkmate(board) /\ board.turn = WHITE => report = {BLACK_WON}
        /\ ~is_checkmate(board) => report = {DRAW}

\* C5's case: in a game of moves of pieces Black is checkmated and
\* White's win is reported.
C5_Witness ==
    /\ pc = "done"
    /\ no_null_moves
    /\ is_checkmate(board)
    /\ board.turn = BLACK
    /\ report = {WHITE_WON}

\* C6 as stated: once the position has occurred three times, or the side to
\* move is stalemated, the loop has ended and a draw is reported.
C6_ThreefoldOrStalemateEndsInDraw ==
    started /\ (is_repetition(board, 3) \/ is_stalemate(board))
        => pc = "done" /\ report = {DRAW}

\* The same for the games in which only moves of pieces were pushed.
C6_ThreefoldEndsInDrawWithoutNullMoves ==
    started /\ no_null_moves /\ is_repetition(board, 3)
        => pc = "done" /\ report = {DRAW}

\* C6 amended: once the position has occurred five times, or the side to
\* move is stalemated, the loop has ended and a draw is reported.
C6_FivefoldOrStalemateEndsInDraw ==
    started /\ (is_fivefold_repetition(board) \/ is_stalemate(board))
        => pc = "done" /\ report = {DRAW} /\ said(DRAW)

\* C6's case: the position has occurred five times and the loop has ended
\* with a draw.
C6_Witness ==
    /\ pc = "done"
    /\ is_fivefold_repetition(board)
    /\ report = {DRAW}

\* The other case of C6: stalemate with both queens on the board.
C6_StalemateReached ==
    /\ pc = "done"
    /\ is_stalemate(board)
    /\ ~is_insufficient_material(board)
    /\ no_null_moves
    /\ report = {DRAW}

\* C7: move_history is as long as the board's move stack, a step that
\* pushes a move appends one entry, and any other step leaves
\* move_history as it is.
C7_HistoryLengthIsMovesApplied ==
    /\ [](Len(move_history) = Len(board.move_stack))
    /\ [][IF board'.move_stack = board.move_stack
          THEN move_history' = move_history
          ELSE /\ Len(board'.move_stack) = Len(board.move_stack) + 1
               /\ Len(move_history') = Len(move_history) + 1
               /\ SubSeq(move_history', 1, Len(move_history)) = move_history]_vars

\* C7's case: a move of each player has been made, both are in
\* move_history, and an input has been rejected since.
C7_Witness ==
    /\ pc = "human"
    /\ Len(board.move_stack) = 2
    /\ Len(move_history) = 2
    /\ printed = <<ILLEGAL>>

\* C8: the human is asked only with White to move and the model only with
\* Black to move; the moves pushed were White's, Black's, White's, ... in
\* turn, and the side to move now is the other one than moved last.
C8_TurnsAlternate ==
    /\ pc = "human" => board.turn = WHITE
    /\ pc = "model" => board.turn = BLACK
    /\ \A i \in 1..Len(board.stack) : board.stack[i].turn = (IF i % 2 = 1 THEN WHITE ELSE BLACK)
    /\ board.turn = (IF Len(board.stack) % 2 = 0 THEN WHITE ELSE BLACK)

\* C8's case: after the human's move and the model's reply it is the
\* human's turn again.
C8_Witness ==
    /\ pc = "human"
    /\ Len(board.move_stack) = 2
    /\ board.stack[2].turn = BLACK
    /\ board.turn = WHITE

\* C9: with the key absent or empty there is never a board, never a prompt
\* and never a model call, and the program ends with the error that says to
\* set the key.
C9_MissingKeyIsFatalBeforeTheLoop ==
    api_key \in {"None", ""} =>
        /\ pc \in {"import", "crashed"}
        /\ board = NoBoard
        /\ requests = 0
        /\ printed = <<>>
        /\ pc = "crashed" => stderr = KeyError

\* C9's case: the key is empty and the program has ended with the error.
C9_Witness ==
    /\ api_key = ""
    /\ pc = "crashed"
    /\ stderr = KeyError

\* C10: a step of the human's turn that prints either rejection changes
\* neither the board nor move_history, makes no model call, reports nothing
\* and leaves the program asking the human; and whenever a rejection is the
\* last thing printed the program is asking the human.
C10_RejectionChangesNothing ==
    /\ [](said(ILLEGAL) \/ said(INVALID) => pc = "human")
    /\ [][(pc = "human" /\ \E i \in 1..Len(printed') : printed'[i] \in {ILLEGAL, INVALID})
          => /\ pc' = "human"
             /\ UNCHANGED <<board, move_history, requests, report, stderr>>]_vars

\* C10's case: after two moves a line of input has been rejected as no
\* move at all, and the human is asked again.
C10_Witness ==
    /\ pc = "human"
    /\ printed = <<INVALID>>
    /\ Len(board.move_stack) = 2

====
